---- MODULE Spec2Model ----
(***************************************************************************)
(* Model of the text helpers of srv/server.go: renderContent (the line     *)
(* oriented markup converter), processInlineFormatting (delimiter pairing) *)
(* and excerpt (word-boundary truncation).                                 *)
(*                                                                         *)
(* A Go string is modelled as a sequence of one-character strings.  The    *)
(* converter's output additionally carries, per character, a history label *)
(* "o" recording who wrote it: "lit" (a character copied from the input),  *)
(* "esc" (part of an entity written by the escaper), "tag" (a block tag    *)
(* written by renderContent) or "fmt" (an inline tag written by            *)
(* processInlineFormatting).  The label is never read by the modelled      *)
(* code: every search and comparison looks at the characters only.         *)
(***************************************************************************)
EXTENDS Integers, Sequences, FiniteSets, TLC

VARIABLES
    pc,           \* position of the call: "loop", "done", "call", "bold", "code", "panic"
    content,      \* renderContent / excerpt argument (sequence of characters)
    lines,        \* strings.Split(content, "\n")
    idx,          \* number of lines the range loop has consumed
    sb,           \* strings.Builder contents (labelled characters)
    inCodeBlock,
    inList,
    paragraph,    \* []string, each a sequence of characters
    result,       \* value returned by renderContent / excerpt
    maxLen,       \* excerpt argument
    s             \* processInlineFormatting's local string (labelled characters)

vars == <<pc, content, lines, idx, sb, inCodeBlock, inList, paragraph, result, maxLen, s>>

\* ---- bounds ----
MaxLines == 3
MaxSegLen == 8
MaxExLen == 5
MaxMaxLen == 4
MinMaxLen == 2
MaxFairLen == 5

\* ---- strings package ----
Min(S) == CHOOSE x \in S : \A y \in S : x <= y

Max(S) == CHOOSE x \in S : \A y \in S : x >= y

\* Go slice expression str[a:b] (0-based, half open)
Slice(str, a, b) == SubSeq(str, a + 1, b)

\* the characters of a labelled string
Ch(str) == [i \in 1..Len(str) |-> str[i].c]

\* label every character of a plain string
Lab(str, o) == [i \in 1..Len(str) |-> [c |-> str[i], o |-> o]]

\* strings.Index: 0-based position of the first occurrence, or -1
Index(str, sub) ==
    LET hits == {i \in 0..(Len(str) - Len(sub)) :
                    \A j \in 1..Len(sub) : str[i + j] = sub[j]}
    IN  IF hits = {} THEN -1 ELSE Min(hits)

\* strings.LastIndex: 0-based position of the last occurrence, or -1
LastIndex(str, sub) ==
    LET hits == {i \in 0..(Len(str) - Len(sub)) :
                    \A j \in 1..Len(sub) : str[i + j] = sub[j]}
    IN  IF hits = {} THEN -1 ELSE Max(hits)

HasPrefix(str, pre) ==
    /\ Len(str) >= Len(pre)
    /\ \A j \in 1..Len(pre) : str[j] = pre[j]

TrimPrefix(str, pre) ==
    IF HasPrefix(str, pre) THEN Slice(str, Len(pre), Len(str)) ELSE str

WhiteSpace == {" ", "\t", "\r", "\n"}

\* strings.TrimSpace
TrimSpace(str) ==
    LET keep == {i \in 1..Len(str) : str[i] \notin WhiteSpace}
    IN  IF keep = {} THEN <<>> ELSE SubSeq(str, Min(keep), Max(keep))

\* strings.Split(str, "\n"): always at least one element
RECURSIVE Split(_)
Split(str) ==
    LET i == Index(str, <<"\n">>)
    IN  IF i = -1 THEN <<str>>
        ELSE <<Slice(str, 0, i)>> \o Split(Slice(str, i + 1, Len(str)))

\* strings.Join(elems, " ")
RECURSIVE Join(_)
Join(elems) ==
    IF Len(elems) = 0 THEN <<>>
    ELSE IF Len(elems) = 1 THEN elems[1]
    ELSE elems[1] \o <<" ">> \o Join(Tail(elems))

\* an escaper that forgets '<'
EscapeCharKeepsLt(c) ==
    CASE c = "&"  -> Lab(<<"&", "a", "m", "p", ";">>, "esc")
      [] c = ">"  -> Lab(<<"&", "g", "t", ";">>, "esc")
      [] c = "\"" -> Lab(<<"&", "#", "3", "4", ";">>, "esc")
      [] c = "'"  -> Lab(<<"&", "#", "3", "9", ";">>, "esc")
      [] OTHER    -> <<[c |-> c, o |-> "lit"]>>

\* template.HTMLEscapeString on one character (its sixth case, NUL to U+FFFD, is
\* left out: no input of the model holds a NUL)
EscapeChar(c) ==
    CASE c = "&"  -> Lab(<<"&", "a", "m", "p", ";">>, "esc")
      [] c = "<"  -> Lab(<<"&", "l", "t", ";">>, "esc")
      [] c = ">"  -> Lab(<<"&", "g", "t", ";">>, "esc")
      [] c = "\"" -> Lab(<<"&", "#", "3", "4", ";">>, "esc")
      [] c = "'"  -> Lab(<<"&", "#", "3", "9", ";">>, "esc")
      [] OTHER    -> <<[c |-> c, o |-> "lit"]>>

RECURSIVE HTMLEscapeString(_)
HTMLEscapeString(str) ==
    IF Len(str) = 0 THEN <<>>
    ELSE EscapeChar(Head(str)) \o HTMLEscapeString(Tail(str))

\* ---- tags ----
Indent == <<" ", " ", " ", " ">>
NL == <<"\n">>
POpen == <<"<", "p", ">">>
PClose == <<"<", "/", "p", ">">>
UlOpen == <<"<", "u", "l", ">">>
UlClose == <<"<", "/", "u", "l", ">">>
LiOpen == <<"<", "l", "i", ">">>
LiClose == <<"<", "/", "l", "i", ">">>
H2Open == <<"<", "h", "2", ">">>
H2Close == <<"<", "/", "h", "2", ">">>
CodeOpen == <<"<", "c", "o", "d", "e", ">">>
CodeClose == <<"<", "/", "c", "o", "d", "e", ">">>
PreOpen == <<"<", "p", "r", "e", ">">> \o CodeOpen
PreClose == CodeClose \o <<"<", "/", "p", "r", "e", ">">>
StrongOpen == <<"<", "s", "t", "r", "o", "n", "g", ">">>
StrongClose == <<"<", "/", "s", "t", "r", "o", "n", "g", ">">>
Stars == <<"*", "*">>
\* the backquote character U+0060 (the TLA+ lexer admits no backquote inside a
\* string, so the character is written "BQ")
Backquote == "BQ"
Tick == <<Backquote>>

Tag(t) == Lab(t, "tag")

\* ---- processInlineFormatting ----
\* start := strings.Index(s, "**")
BoldStart(str) == Index(Ch(str), Stars)

\* a search for the closing delimiter that starts one character too early
BoldEndOverlapping(str) ==
    LET start == Index(Ch(str), Stars)
    IN  IF start = -1 THEN -1
        ELSE LET end == Index(Ch(Slice(str, start + 1, Len(str))), Stars)
             IN  IF end = -1 THEN -1 ELSE end + start + 1

\* end := strings.Index(s[start+2:], "**"); end += start + 2   (-1: no pair)
BoldEnd(str) ==
    LET start == BoldStart(str)
    IN  IF start = -1 THEN -1
        ELSE LET end == Index(Ch(Slice(str, start + 2, Len(str))), Stars)
             IN  IF end = -1 THEN -1 ELSE end + start + 2

\* s = s[:start] + "<strong>" + s[start+2:end] + "</strong>" + s[end+2:]
BoldReplace(str) ==
    LET start == BoldStart(str)
        end   == BoldEnd(str)
    IN  Slice(str, 0, start) \o Lab(StrongOpen, "fmt") \o Slice(str, start + 2, end)
            \o Lab(StrongClose, "fmt") \o Slice(str, end + 2, Len(str))

\* the first for loop
RECURSIVE BoldLoop(_)
BoldLoop(str) ==
    IF BoldEnd(str) = -1 THEN str ELSE BoldLoop(BoldReplace(str))

\* start := strings.Index(s, "`")
CodeStart(str) == Index(Ch(str), Tick)

\* a search for the closing backquote that looks for "**", as the bold loop does
CodeEndSearchesStars(str) ==
    LET start == Index(Ch(str), Tick)
    IN  IF start = -1 THEN -1
        ELSE LET end == Index(Ch(Slice(str, start + 1, Len(str))), Stars)
             IN  IF end = -1 THEN -1 ELSE end + start + 1

\* end := strings.Index(s[start+1:], "`"); end += start + 1   (-1: no pair)
CodeEnd(str) ==
    LET start == CodeStart(str)
    IN  IF start = -1 THEN -1
        ELSE LET end == Index(Ch(Slice(str, start + 1, Len(str))), Tick)
             IN  IF end = -1 THEN -1 ELSE end + start + 1

\* s = s[:start] + "<code>" + s[start+1:end] + "</code>" + s[end+1:]
CodeReplace(str) ==
    LET start == CodeStart(str)
        end   == CodeEnd(str)
    IN  Slice(str, 0, start) \o Lab(CodeOpen, "fmt") \o Slice(str, start + 1, end)
            \o Lab(CodeClose, "fmt") \o Slice(str, end + 1, Len(str))

\* the second for loop
RECURSIVE CodeLoop(_)
CodeLoop(str) ==
    IF CodeEnd(str) = -1 THEN str ELSE CodeLoop(CodeReplace(str))

processInlineFormatting(str) == CodeLoop(BoldLoop(str))

\* ---- renderContent ----
\* a flush that forgets to clear the buffer
flushParagraphKeepsBuffer(st) ==
    IF Len(st.paragraph) > 0
    THEN [st EXCEPT !.sb = @ \o Tag(POpen) \o HTMLEscapeString(Join(st.paragraph))
                               \o Tag(PClose \o NL)]
    ELSE st

\* the closure flushParagraph, on the record st of renderContent's locals
flushParagraph(st) ==
    IF Len(st.paragraph) > 0
    THEN [st EXCEPT !.sb = @ \o Tag(POpen) \o HTMLEscapeString(Join(st.paragraph))
                               \o Tag(PClose \o NL),
                    !.paragraph = <<>>]
    ELSE st

\* if inList { sb.WriteString("</ul>\n"); inList = false }
closeList(st) ==
    IF st.inList
    THEN [st EXCEPT !.sb = @ \o Tag(UlClose \o NL), !.inList = FALSE]
    ELSE st

\* if strings.HasPrefix(line, "    ") && !inCodeBlock { ... }
openCodeBlock(st, line) ==
    IF HasPrefix(line, Indent) /\ ~st.inCodeBlock
    THEN [closeList(flushParagraph(st)) EXCEPT !.sb = @ \o Tag(PreOpen),
                                               !.inCodeBlock = TRUE]
    ELSE st

\* the else branch of "if inCodeBlock": leave the code block
closeCodeBlock(st) ==
    IF st.inCodeBlock
    THEN [st EXCEPT !.sb = @ \o Tag(PreClose \o NL), !.inCodeBlock = FALSE]
    ELSE st

\* sb.WriteString(HTMLEscapeString(TrimPrefix(line, "    "))); sb.WriteString("\n")
codeLine(st, line) ==
    [st EXCEPT !.sb = @ \o HTMLEscapeString(TrimPrefix(line, Indent)) \o Tag(NL)]

\* a header line that leaves an open list open
headerLineLeavesList(st, trimmed, prefix) ==
    LET st1 == IF Len(st.paragraph) > 0
               THEN [st EXCEPT !.sb = @ \o Tag(POpen) \o HTMLEscapeString(Join(st.paragraph))
                                          \o Tag(PClose \o NL),
                               !.paragraph = <<>>]
               ELSE st
    IN  [st1 EXCEPT !.sb = @ \o Tag(H2Open) \o HTMLEscapeString(TrimPrefix(trimmed, prefix))
                               \o Tag(H2Close \o NL)]

\* a header line with the given prefix
headerLine(st, trimmed, prefix) ==
    LET st1 == closeList(flushParagraph(st))
    IN  [st1 EXCEPT !.sb = @ \o Tag(H2Open) \o HTMLEscapeString(TrimPrefix(trimmed, prefix))
                               \o Tag(H2Close \o NL)]

\* a list item line that opens a list whether or not one is open
listLineReopens(st, trimmed) ==
    LET st1 == IF Len(st.paragraph) > 0
               THEN [st EXCEPT !.sb = @ \o Tag(POpen) \o HTMLEscapeString(Join(st.paragraph))
                                          \o Tag(PClose \o NL),
                               !.paragraph = <<>>]
               ELSE st
        st2 == [st1 EXCEPT !.sb = @ \o Tag(UlOpen \o NL), !.inList = TRUE]
    IN  [st2 EXCEPT !.sb = @ \o Tag(LiOpen) \o HTMLEscapeString(TrimPrefix(trimmed, <<"-", " ">>))
                               \o Tag(LiClose \o NL)]

\* a list item line
listLine(st, trimmed) ==
    LET st1 == flushParagraph(st)
        st2 == IF ~st1.inList
               THEN [st1 EXCEPT !.sb = @ \o Tag(UlOpen \o NL), !.inList = TRUE]
               ELSE st1
    IN  [st2 EXCEPT !.sb = @ \o Tag(LiOpen) \o HTMLEscapeString(TrimPrefix(trimmed, <<"-", " ">>))
                               \o Tag(LiClose \o NL)]

\* paragraph = append(paragraph, trimmed)
plainLine(st, trimmed) ==
    [st EXCEPT !.paragraph = Append(@, trimmed)]

\* one iteration of "for _, line := range lines"
loopBody(st, line) ==
    LET trimmed == TrimSpace(line)
        st1     == openCodeBlock(st, line)
    IN  IF st1.inCodeBlock /\ HasPrefix(line, Indent) THEN codeLine(st1, line)
        ELSE LET st2 == closeCodeBlock(st1)
             IN  IF trimmed = <<>> THEN closeList(flushParagraph(st2))
                 ELSE IF HasPrefix(trimmed, <<"#", "#", " ">>)
                      THEN headerLine(st2, trimmed, <<"#", "#", " ">>)
                 ELSE IF HasPrefix(trimmed, <<"#", " ">>)
                      THEN headerLine(st2, trimmed, <<"#", " ">>)
                 ELSE IF HasPrefix(trimmed, <<"-", " ">>) THEN listLine(st2, trimmed)
                 ELSE plainLine(st2, trimmed)

\* an end of input that forgets the open list
afterLoopLeavesList(st) ==
    LET st1 == IF st.inCodeBlock THEN [st EXCEPT !.sb = @ \o Tag(PreClose \o NL)] ELSE st
    IN  IF Len(st1.paragraph) > 0
        THEN [st1 EXCEPT !.sb = @ \o Tag(POpen) \o HTMLEscapeString(Join(st1.paragraph))
                                   \o Tag(PClose \o NL),
                         !.paragraph = <<>>]
        ELSE st1

\* the statements after the loop, up to sb.String()
afterLoop(st) ==
    LET st1 == IF st.inCodeBlock THEN [st EXCEPT !.sb = @ \o Tag(PreClose \o NL)] ELSE st
        st2 == IF st1.inList THEN [st1 EXCEPT !.sb = @ \o Tag(UlClose \o NL)] ELSE st1
    IN  flushParagraph(st2)

Locals == [sb |-> sb, inCodeBlock |-> inCodeBlock, inList |-> inList, paragraph |-> paragraph]

\* ---- inputs of renderContent ----
\* the lines the input is assembled from
LineSet ==
    { <<>>,
      <<"a">>,
      <<" ", "b", " ">>,
      <<"*", "*", "a">>,
      <<"*", "*", "<", "*", "*">>,
      <<Backquote, "&">>,
      <<"-", " ", "a">>,
      <<"-", " ", "*", "*", Backquote>>,
      <<"#", " ", "a">>,
      <<"#", "#", " ", "*", "*">>,
      <<" ", " ", " ", " ", "a">>,
      <<" ", " ", " ", " ", "*", "*", "\"", "*", "*">>,
      <<" ", " ", " ", " ", " ", Backquote>> }

RECURSIVE JoinNL(_)
JoinNL(ls) ==
    IF Len(ls) = 0 THEN <<>>
    ELSE IF Len(ls) = 1 THEN ls[1]
    ELSE ls[1] \o NL \o JoinNL(Tail(ls))

\* inputs quoted by the documentation
ExList == <<"-", " ", "o", "n", "e", "\n", "-", " ", "t", "w", "o", "\n", "\n",
            "A", "f", "t", "e", "r", ".", "\n">>
ExIndent == <<"h", "e", "l", "l", "o", "\n", " ", " ", " ", " ", "w", "o", "r", "l", "d", "\n">>
ExInterrupt == <<"-", " ", "a", "\n", "t", "e", "x", "t", "\n", "-", " ", "b">>

ExHeaderOne == <<"#", " ", "T">>
ExHeaderTwo == <<"#", "#", " ", "T">>
ExHeaderNoSpace == <<"#", "T">>
ExHeaderIndented == <<" ", " ", " ", " ", "#", " ", "T">>

Contents ==
    { JoinNL(ls) : ls \in UNION { [1..n -> LineSet] : n \in 1..MaxLines } }
        \cup {ExList, ExIndent, ExInterrupt}
        \cup {ExHeaderOne, ExHeaderTwo, ExHeaderNoSpace, ExHeaderIndented}

\* ---- renderContent as a state machine ----
Init ==
    /\ pc = "loop"
    /\ content \in Contents
    /\ lines = Split(content)
    /\ idx = 0
    /\ sb = <<>>
    /\ inCodeBlock = FALSE
    /\ inList = FALSE
    /\ paragraph = <<>>
    /\ result = <<>>
    /\ maxLen = 0
    /\ s = <<>>

\* one iteration of the range loop
RenderLine ==
    /\ pc = "loop"
    /\ idx < Len(lines)
    /\ LET st == loopBody(Locals, lines[idx + 1])
       IN  /\ sb' = st.sb
           /\ inCodeBlock' = st.inCodeBlock
           /\ inList' = st.inList
           /\ paragraph' = st.paragraph
    /\ idx' = idx + 1
    /\ UNCHANGED <<pc, content, lines, result, maxLen, s>>

\* the loop is over: close what is open, format, return
RenderReturn ==
    /\ pc = "loop"
    /\ idx = Len(lines)
    /\ LET st == afterLoop(Locals)
       IN  /\ sb' = st.sb
           /\ paragraph' = st.paragraph
           /\ result' = processInlineFormatting(st.sb)
    /\ pc' = "done"
    /\ UNCHANGED <<content, lines, idx, inCodeBlock, inList, maxLen, s>>

Next == RenderLine \/ RenderReturn

Spec == Init /\ [][Next]_vars

\* ---- processInlineFormatting as a state machine, on one segment ----
\* all strings over the alphabet of length at most n
RECURSIVE StringsUpTo(_, _)
StringsUpTo(alphabet, n) ==
    IF n = 0 THEN {<<>>}
    ELSE LET shorter == StringsUpTo(alphabet, n - 1)
         IN  shorter \cup {Append(w, c) : w \in shorter, c \in alphabet}

ExUnmatched == <<"a", " ", "*", "*", " ", "b">>
ExBoldCode == <<"S", "o", "m", "e", " ", "*", "*", "b", "o", "l", "d", "*", "*", " ",
                "a", "n", "d", " ", Backquote, "c", "o", "d", "e", Backquote, ".">>

Segments == StringsUpTo({"a", "*", Backquote}, MaxSegLen) \cup {ExUnmatched, ExBoldCode}

InitInline ==
    /\ pc = "bold"
    /\ content \in Segments
    /\ s = Lab(content, "lit")
    /\ lines = <<>>
    /\ idx = 0
    /\ sb = <<>>
    /\ inCodeBlock = FALSE
    /\ inList = FALSE
    /\ paragraph = <<>>
    /\ result = <<>>
    /\ maxLen = 0

\* one iteration of the bold loop that finds a pair
BoldStep ==
    /\ pc = "bold"
    /\ BoldEnd(s) # -1
    /\ s' = BoldReplace(s)
    /\ UNCHANGED <<pc, content, lines, idx, sb, inCodeBlock, inList, paragraph, result, maxLen>>

\* the bold loop breaks
BoldBreak ==
    /\ pc = "bold"
    /\ BoldEnd(s) = -1
    /\ pc' = "code"
    /\ UNCHANGED <<s, content, lines, idx, sb, inCodeBlock, inList, paragraph, result, maxLen>>

\* one iteration of the code loop that finds a pair
CodeStep ==
    /\ pc = "code"
    /\ CodeEnd(s) # -1
    /\ s' = CodeReplace(s)
    /\ UNCHANGED <<pc, content, lines, idx, sb, inCodeBlock, inList, paragraph, result, maxLen>>

\* the code loop breaks: return s
CodeBreak ==
    /\ pc = "code"
    /\ CodeEnd(s) = -1
    /\ pc' = "done"
    /\ result' = s
    /\ UNCHANGED <<s, content, lines, idx, sb, inCodeBlock, inList, paragraph, maxLen>>

NextInline == BoldStep \/ BoldBreak \/ CodeStep \/ CodeBreak

SpecInline == InitInline /\ [][NextInline]_vars

\* the segments of the termination check: every string of delimiters, and every
\* shorter string of delimiters and text
DelimiterSegments ==
    StringsUpTo({"*", Backquote}, MaxSegLen)
        \cup StringsUpTo({"a", "*", Backquote}, MaxFairLen)
        \cup {ExUnmatched, ExBoldCode}

InitInlineFair ==
    /\ pc = "bold"
    /\ content \in DelimiterSegments
    /\ s = Lab(content, "lit")
    /\ lines = <<>>
    /\ idx = 0
    /\ sb = <<>>
    /\ inCodeBlock = FALSE
    /\ inList = FALSE
    /\ paragraph = <<>>
    /\ result = <<>>
    /\ maxLen = 0

\* the function is sequential code: it always executes its next statement
SpecInlineFair == InitInlineFair /\ [][NextInline]_vars /\ WF_vars(NextInline)

\* ---- excerpt ----
\* content[:maxLen] is a run-time panic when maxLen < 0 (len(content) > maxLen here)
excerptPanics(c, m) ==
    LET t == TrimSpace(c)
    IN  Len(t) > m /\ m < 0

\* an excerpt that compares with < instead of <=
excerptStrictCompare(c, m) ==
    LET t == TrimSpace(c)
    IN  IF Len(t) < m THEN t
        ELSE LET truncated == Slice(t, 0, m)
                 i         == LastIndex(truncated, <<" ">>)
             IN  (IF i > 0 THEN Slice(truncated, 0, i) ELSE truncated) \o <<".", ".", ".">>

\* the value excerpt returns when it returns
excerpt(c, m) ==
    LET t == TrimSpace(c)
    IN  IF Len(t) <= m THEN t
        ELSE LET truncated == Slice(t, 0, m)
                 i         == LastIndex(truncated, <<" ">>)
             IN  (IF i > 0 THEN Slice(truncated, 0, i) ELSE truncated) \o <<".", ".", ".">>

ExFox == <<"T", "h", "e", " ", "q", "u", "i", "c", "k", " ", "b", "r", "o", "w", "n", " ",
           "f", "o", "x", " ", "j", "u", "m", "p", "s">>
ExShort == <<"s", "h", "o", "r", "t">>

ExcerptContents == StringsUpTo({"a", "b", " "}, MaxExLen) \cup {ExFox, ExShort}

ExcerptLens == ((0 - MinMaxLen)..MaxMaxLen) \cup {10}

InitExcerpt ==
    /\ pc = "call"
    /\ content \in ExcerptContents
    /\ maxLen \in ExcerptLens
    /\ result = <<>>
    /\ lines = <<>>
    /\ idx = 0
    /\ sb = <<>>
    /\ inCodeBlock = FALSE
    /\ inList = FALSE
    /\ paragraph = <<>>
    /\ s = <<>>

\* excerpt runs to a return statement
ExcerptReturn ==
    /\ pc = "call"
    /\ ~excerptPanics(content, maxLen)
    /\ result' = excerpt(content, maxLen)
    /\ pc' = "done"
    /\ UNCHANGED <<content, lines, idx, sb, inCodeBlock, inList, paragraph, maxLen, s>>

\* excerpt panics in the slice expression
ExcerptPanic ==
    /\ pc = "call"
    /\ excerptPanics(content, maxLen)
    /\ pc' = "panic"
    /\ UNCHANGED <<content, lines, idx, sb, inCodeBlock, inList, paragraph, result, maxLen, s>>

NextExcerpt == ExcerptReturn \/ ExcerptPanic

SpecExcerpt == InitExcerpt /\ [][NextExcerpt]_vars

\* ---- vocabulary of the properties ----
Special == {"<", ">", "&", "\""}

StructuralTags ==
    {POpen, PClose, H2Open, H2Close, UlOpen, UlClose, LiOpen, LiClose,
     PreOpen, PreClose, StrongOpen, StrongClose, CodeOpen, CodeClose}

Entities ==
    {<<"&", "a", "m", "p", ";">>, <<"&", "l", "t", ";">>, <<"&", "g", "t", ";">>,
     <<"&", "#", "3", "4", ";">>, <<"&", "#", "3", "9", ";">>}

\* the characters of tk stand at position i of str, all labelled from os
TokenAt(str, i, tk, os) ==
    /\ i + Len(tk) - 1 <= Len(str)
    /\ \A j \in 1..Len(tk) : str[i + j - 1].c = tk[j] /\ str[i + j - 1].o \in os

\* the characters of tk stand at position i of str (labels not looked at)
TextAt(str, i, tk) == TokenAt(str, i, tk, {"lit", "esc", "tag", "fmt"})

\* number of positions below i where tk stands labelled from os
CountBefore(str, i, tk, os) ==
    Cardinality({j \in 1..(i - 1) : TokenAt(str, j, tk, os)})

\* number of occurrences of the text tk in str
Count(str, tk) == Cardinality({j \in 1..Len(str) : TextAt(str, j, tk)})

Contains(str, sub) == Index(str, sub) # -1

\* from position i on, str is made of characters that are not special, of
\* structural tags written by the converter, and of entities written by the escaper
RECURSIVE OnlyConverterMarkup(_, _)
OnlyConverterMarkup(str, i) ==
    IF i > Len(str) THEN TRUE
    ELSE IF str[i].c \notin Special THEN OnlyConverterMarkup(str, i + 1)
    ELSE \/ \E tk \in StructuralTags :
                /\ TokenAt(str, i, tk, {"tag", "fmt"})
                /\ OnlyConverterMarkup(str, i + Len(tk))
         \/ \E tk \in Entities :
                /\ TokenAt(str, i, tk, {"esc"})
                /\ OnlyConverterMarkup(str, i + Len(tk))

\* C1: in the builder at every step and in the returned string, no '<', '>', '&'
\* or '"' is a character copied from the input: each one belongs to a structural
\* tag written by the converter or to an entity written by the escaper, also
\* after inline formatting has rewritten the string.
C1_OnlyConverterMarkup ==
    /\ \A i \in 1..Len(sb) : sb[i].c \in Special => sb[i].o # "lit"
    /\ OnlyConverterMarkup(sb, 1)
    /\ pc = "done" =>
          /\ \A i \in 1..Len(result) : result[i].c \in Special => result[i].o # "lit"
          /\ OnlyConverterMarkup(result, 1)

\* C1 witness: an input with a literal '<' and a literal '"' has been rendered, and
\* inline formatting has rewritten the string around the escaped text
C1_Witness ==
    /\ pc = "done"
    /\ \E i \in 1..Len(content) : content[i] = "<"
    /\ \E i \in 1..Len(content) : content[i] = "\""
    /\ \E i \in 1..Len(result) : result[i].o = "esc"
    /\ \E i \in 1..Len(result) : result[i].o = "fmt"

\* nesting depth of inline spans at position i: inline openers before i minus
\* inline closers before i
InlineDepth(str, i) ==
    CountBefore(str, i, StrongOpen, {"fmt"}) + CountBefore(str, i, CodeOpen, {"fmt"})
        - CountBefore(str, i, StrongClose, {"fmt"}) - CountBefore(str, i, CodeClose, {"fmt"})

\* C2: inline formatting is scoped to one block's text: no <strong>...</strong> or
\* <code>...</code> span written by the inline formatter contains a character of a
\* block tag, i.e. no delimiter is paired with a delimiter of another block.
C2_InlineWithinBlock ==
    pc = "done" =>
        \A i \in 1..Len(result) :
            (result[i].o = "tag" /\ result[i].c # "\n") => InlineDepth(result, i) = 0

\* position i lies inside a code block: more <pre><code> than </code></pre> before it
InCodeBlockAt(str, i) ==
    CountBefore(str, i, PreOpen, {"tag"}) > CountBefore(str, i, PreClose, {"tag"})

\* C3: code-block content is verbatim: no inline tag is ever written between
\* <pre><code> and </code></pre>, so the lines of a code block appear exactly as
\* escaped by the loop.
C3_CodeBlockVerbatim ==
    pc = "done" =>
        \A i \in 1..Len(result) : result[i].o = "fmt" => ~InCodeBlockAt(result, i)

\* C4: the parser never has both an open list and a non-empty paragraph buffer,
\* and no <p> is written between <ul> and its </ul>.
C4_TextClosesList ==
    /\ ~(inList /\ Len(paragraph) > 0)
    /\ \A i \in 1..Len(sb) :
          TokenAt(sb, i, POpen, {"tag"}) =>
              CountBefore(sb, i, UlOpen, {"tag"}) = CountBefore(sb, i, UlClose, {"tag"})

\* C5: excerpt returns a string for every content and every maxLen, negative
\* maxLen included: it never panics.
C5_ExcerptTotal == pc # "panic"

\* C5 witness of the failing case: excerpt was called with a negative maxLen
C5_NegativeCall == pc = "panic" /\ maxLen < 0

\* t is content with leading and trailing white space removed
IsTrimmed(t, c) ==
    \E a \in 0..Len(c) : \E b \in a..Len(c) :
        /\ t = SubSeq(c, a + 1, b)
        /\ \A k \in 1..a : c[k] \in WhiteSpace
        /\ \A k \in (b + 1)..Len(c) : c[k] \in WhiteSpace
        /\ t # <<>> => (t[1] \notin WhiteSpace /\ t[Len(t)] \notin WhiteSpace)

Ellipsis == <<".", ".", ".">>

\* what the documentation says excerpt returns for the trimmed text t and limit m
ExcerptOf(t, m) ==
    IF Len(t) <= m THEN t
    ELSE LET spaces == {k \in 2..m : t[k] = " "}
             p      == IF spaces # {} THEN SubSeq(t, 1, Max(spaces) - 1)
                       ELSE SubSeq(t, 1, m)
         IN  p \o Ellipsis

Kind(line) ==
    IF HasPrefix(line, Indent) THEN "code"
    ELSE LET t == TrimSpace(line)
         IN  IF t = <<>> THEN "blank"
             ELSE IF HasPrefix(t, <<"#", "#", " ">>) \/ HasPrefix(t, <<"#", " ">>) THEN "header"
             ELSE IF HasPrefix(t, <<"-", " ">>) THEN "list"
             ELSE "plain"

\* the text of a list item line
ItemText(line) == SubSeq(TrimSpace(line), 3, Len(TrimSpace(line)))

\* <li>text</li> followed by a newline
ItemHtml(line) == LiOpen \o Ch(HTMLEscapeString(ItemText(line))) \o LiClose \o NL

ExListHtml ==
    <<"<", "u", "l", ">", "\n", "<", "l", "i", ">", "o", "n", "e", "<", "/", "l", "i", ">", "\n",
      "<", "l", "i", ">", "t", "w", "o", "<", "/", "l", "i", ">", "\n", "<", "/", "u", "l", ">", "\n",
      "<", "p", ">", "A", "f", "t", "e", "r", ".", "<", "/", "p", ">", "\n">>

\* C7 as stated: a list is the contiguous string <ul><li>..</li>..</ul>, with a
\* newline only after the whole block; "- one\n- two\n\nAfter.\n" gives output
\* containing <ul><li>one</li><li>two</li></ul>.
C7_ListContiguous ==
    pc = "done" =>
        /\ \A i \in 1..Len(result) :
              TokenAt(result, i, UlOpen, {"tag"}) => TokenAt(result, i + 4, LiOpen, {"tag"})
        /\ content = ExList =>
              Contains(Ch(result), UlOpen \o LiOpen \o <<"o", "n", "e">> \o LiClose
                                     \o LiOpen \o <<"t", "w", "o">> \o LiClose \o UlClose)

\* C7 amended: every tag of a list is followed by a newline: <ul> is written as
\* "<ul>\n" directly before the first <li>, consecutive list-item lines are
\* written as contiguous "<li>item</li>\n" strings in order, and
\* "- one\n- two\n\nAfter.\n" gives exactly
\* "<ul>\n<li>one</li>\n<li>two</li>\n</ul>\n<p>After.</p>\n".
C7_ListWithNewlines ==
    pc = "done" =>
        /\ \A i \in 1..Len(result) :
              TokenAt(result, i, UlOpen, {"tag"}) =>
                  TokenAt(result, i + 4, NL \o LiOpen, {"tag"})
        /\ \A k \in 1..(Len(lines) - 1) :
              (Kind(lines[k]) = "list" /\ Kind(lines[k + 1]) = "list") =>
                  Contains(Ch(sb), ItemHtml(lines[k]) \o ItemHtml(lines[k + 1]))
        /\ Count(sb, LiOpen) = Cardinality({k \in 1..Len(lines) : Kind(lines[k]) = "list"})
        /\ content = ExList => Ch(result) = ExListHtml

\* C7 witness: the documented list input has been rendered
C7_Witness ==
    /\ pc = "done"
    /\ content = ExList
    /\ Count(result, UlOpen) = 1

\* the lines of one paragraph joined by single spaces
RECURSIVE SpaceJoined(_)
SpaceJoined(run) ==
    IF Len(run) = 1 THEN run[1]
    ELSE SpaceJoined(SubSeq(run, 1, Len(run) - 1)) \o <<" ">> \o run[Len(run)]

\* the paragraphs of a document: its maximal runs of consecutive plain lines,
\* each trimmed and joined with single spaces (cur: the run being collected)
RECURSIVE ParagraphsOf(_, _)
ParagraphsOf(ls, cur) ==
    LET done == IF cur = <<>> THEN <<>> ELSE <<SpaceJoined(cur)>>
    IN  IF ls = <<>> THEN done
        ELSE IF Kind(Head(ls)) = "plain"
             THEN ParagraphsOf(Tail(ls), Append(cur, TrimSpace(Head(ls))))
             ELSE done \o ParagraphsOf(Tail(ls), <<>>)

\* the texts between <p> and </p> in str, in order, from position i on
RECURSIVE ParagraphTexts(_, _)
ParagraphTexts(str, i) ==
    IF i > Len(str) THEN <<>>
    ELSE IF TokenAt(str, i, POpen, {"tag"})
         THEN LET ends == {j \in (i + 3)..Len(str) : TokenAt(str, j, PClose, {"tag"})}
              IN  IF ends = {} THEN <<Ch(SubSeq(str, i + 3, Len(str)))>>
                  ELSE <<Ch(SubSeq(str, i + 3, Min(ends) - 1))>>
                           \o ParagraphTexts(str, Min(ends) + 4)
         ELSE ParagraphTexts(str, i + 1)

ExIndentHtml ==
    <<"<", "p", ">", "h", "e", "l", "l", "o", "<", "/", "p", ">", "\n",
      "<", "p", "r", "e", ">", "<", "c", "o", "d", "e", ">", "w", "o", "r", "l", "d", "\n",
      "<", "/", "c", "o", "d", "e", ">", "<", "/", "p", "r", "e", ">", "\n">>

\* C8: each maximal run of consecutive plain lines is written as exactly one <p>
\* holding the trimmed lines joined by single spaces; a blank, header, list-item
\* or 4-space line and the end of input flush and clear the buffer; an empty
\* buffer writes nothing; "hello\n    world\n" gives a paragraph and a code block.
C8_ParagraphAccumulation ==
    /\ pc = "loop" =>
          LET seen == ParagraphsOf(SubSeq(lines, 1, idx), <<>>)
              texts == ParagraphTexts(sb, 1)
          IN  /\ Len(paragraph) > 0 =>
                    /\ Kind(lines[idx]) = "plain"
                    /\ Len(texts) = Len(seen) - 1
                    /\ SpaceJoined(paragraph) = seen[Len(seen)]
              /\ (idx > 0 /\ Kind(lines[idx]) # "plain") =>
                    /\ Len(paragraph) = 0
                    /\ Len(texts) = Len(seen)
    /\ pc = "done" =>
          LET want == ParagraphsOf(lines, <<>>)
              texts == ParagraphTexts(sb, 1)
          IN  /\ Len(paragraph) = 0
              /\ Len(texts) = Len(want)
              /\ \A k \in 1..Len(want) : texts[k] = Ch(HTMLEscapeString(want[k]))
              /\ content = ExIndent => Ch(result) = ExIndentHtml

\* C8 witness: two buffered lines were flushed as one paragraph by a line
\* indented by 4 spaces, which opened a code block
C8_Witness ==
    /\ pc = "done"
    /\ \E k \in 1..(Len(lines) - 2) :
          /\ Kind(lines[k]) = "plain"
          /\ Kind(lines[k + 1]) = "plain"
          /\ Kind(lines[k + 2]) = "code"
    /\ Count(sb, POpen) = 1
    /\ Count(sb, PreOpen) = 1

\* positions of the delimiter d in str from position i on, taken left to right
\* without overlap
RECURSIVE DelimiterPositions(_, _, _)
DelimiterPositions(str, d, i) ==
    IF i + Len(d) - 1 > Len(str) THEN <<>>
    ELSE IF SubSeq(str, i, i + Len(d) - 1) = d
         THEN <<i>> \o DelimiterPositions(str, d, i + Len(d))
         ELSE DelimiterPositions(str, d, i + 1)

\* str from position i on with the delimiters at pos[k], pos[k+1], ... replaced:
\* odd-numbered ones by open, even-numbered ones by close, a last unpaired one kept
RECURSIVE PairedFrom(_, _, _, _, _, _, _)
PairedFrom(str, d, open, close, pos, i, k) ==
    IF i > Len(str) THEN <<>>
    ELSE IF k <= 2 * (Len(pos) \div 2) /\ pos[k] = i
         THEN (IF k % 2 = 1 THEN open ELSE close)
                  \o PairedFrom(str, d, open, close, pos, i + Len(d), k + 1)
         ELSE <<str[i]>> \o PairedFrom(str, d, open, close, pos, i + 1, k)

\* one pairing pass as the documentation describes it
Paired(str, d, open, close) ==
    PairedFrom(str, d, open, close, DelimiterPositions(str, d, 1), 1, 1)

\* C9: on one segment, '**' occurrences are paired left to right without overlap
\* or nesting (1st with 2nd, 3rd with 4th, ...), each pair becoming
\* <strong>...</strong> around unchanged text, an unpaired last delimiter staying
\* literal ("a ** b" gets no <strong>, "****" gives <strong></strong>); the
\* backquote pass does the same with <code>...</code> and starts only when the
\* bold pass is complete.
C9_LeftToRightPairing ==
    /\ pc = "bold" => \A i \in 1..Len(s) : ~TokenAt(s, i, CodeOpen, {"fmt"})
    /\ pc = "code" =>
          Count(s, StrongOpen) = Len(DelimiterPositions(content, Stars, 1)) \div 2
    /\ pc = "done" =>
          /\ Ch(result) = Paired(Paired(content, Stars, StrongOpen, StrongClose),
                                 Tick, CodeOpen, CodeClose)
          /\ content = ExUnmatched => Ch(result) = ExUnmatched
          /\ content = <<"*", "*", "*", "*">> => Ch(result) = StrongOpen \o StrongClose

\* C9 witness: a segment with three '**' delimiters (a pair and an unpaired one)
\* and a backquote pair has been formatted
C9_Witness ==
    /\ pc = "done"
    /\ Len(DelimiterPositions(content, Stars, 1)) >= 3
    /\ Count(result, StrongClose) >= 1
    /\ Count(result, CodeOpen) = 1

\* C9 witness of two bold pairs in one segment
C9_TwoPairs == pc = "done" /\ Count(result, StrongOpen) = 2

\* the positions of the text tk in str
Occurrences(str, tk) == {j \in 1..Len(str) : TextAt(str, j, tk)}

\* openers and closers alternate in str, starting with an opener and ending with
\* a closer: every opener is followed by its closer before the next opener
Balanced(str, open, close) ==
    LET os == Occurrences(str, open)
        cs == Occurrences(str, close)
    IN  /\ Cardinality(os) = Cardinality(cs)
        /\ \A o \in os : \E c \in cs :
              /\ o < c
              /\ \A x \in os \cup cs : ~(o < x /\ x < c)
        /\ \A c \in cs : \E o \in os :
              /\ o < c
              /\ \A x \in os \cup cs : ~(o < x /\ x < c)

\* C10: every opened block is closed: while lines are consumed an open code block
\* excludes an open list and a non-empty paragraph buffer, and the builder holds
\* one unclosed <ul> exactly when a list is open and one unclosed <pre><code>
\* exactly when a code block is open; in the returned string every <ul>,
\* <pre><code> and <p> is followed by its closer, with equal counts of openers and
\* closers, and the paragraph buffer is empty.
C10_BlocksClosed ==
    /\ pc = "loop" =>
          /\ inCodeBlock => (~inList /\ Len(paragraph) = 0)
          /\ Count(sb, UlOpen) - Count(sb, UlClose) = IF inList THEN 1 ELSE 0
          /\ Count(sb, PreOpen) - Count(sb, PreClose) = IF inCodeBlock THEN 1 ELSE 0
          /\ Count(sb, POpen) = Count(sb, PClose)
    /\ pc = "done" =>
          /\ Len(paragraph) = 0
          /\ Balanced(result, UlOpen, UlClose)
          /\ Balanced(result, PreOpen, PreClose)
          /\ Balanced(result, POpen, PClose)
          /\ Balanced(sb, UlOpen, UlClose)
          /\ Balanced(sb, PreOpen, PreClose)
          /\ Balanced(sb, POpen, PClose)

\* C10 witness: the input ended inside a code block that followed a list, and
\* both were closed
C10_Witness ==
    /\ pc = "done"
    /\ inCodeBlock
    /\ Kind(lines[Len(lines)]) = "code"
    /\ Count(result, UlClose) = 1
    /\ Count(result, PreClose) = 1

\* C10 witness: the input ended with a list open and the list was closed
C10_OpenListAtEnd ==
    /\ pc = "done"
    /\ inList
    /\ Kind(lines[Len(lines)]) = "list"
    /\ Count(result, UlClose) = 1

\* the trimmed form of the line starts with "## " or "# "
StartsLikeHeader(line) ==
    LET t == TrimSpace(line)
    IN  \/ (Len(t) >= 3 /\ SubSeq(t, 1, 3) = <<"#", "#", " ">>)
        \/ (Len(t) >= 2 /\ SubSeq(t, 1, 2) = <<"#", " ">>)

\* the trimmed line without its "## " or "# "
HeaderText(line) ==
    LET t == TrimSpace(line)
    IN  IF Len(t) >= 3 /\ SubSeq(t, 1, 3) = <<"#", "#", " ">>
        THEN SubSeq(t, 4, Len(t))
        ELSE SubSeq(t, 3, Len(t))

\* <h2>text</h2> followed by a newline
HeaderHtml(line) == H2Open \o Ch(HTMLEscapeString(HeaderText(line))) \o H2Close \o NL

HasSuffix(str, suf) ==
    /\ Len(str) >= Len(suf)
    /\ SubSeq(str, Len(str) - Len(suf) + 1, Len(str)) = suf

ExHeaderHtml == <<"<", "h", "2", ">", "T", "<", "/", "h", "2", ">", "\n">>

\* C11 as stated: every line whose trimmed form starts with "## " or "# " leaves
\* no paragraph and no list open and writes exactly one <h2> holding the trimmed
\* line without the prefix; '#' without the space is paragraph text.
C11_HeaderEveryLine ==
    /\ (pc = "loop" /\ idx > 0 /\ StartsLikeHeader(lines[idx])) =>
          /\ Len(paragraph) = 0
          /\ ~inList
          /\ HasSuffix(Ch(sb), HeaderHtml(lines[idx]))
    /\ Count(sb, H2Open) =
          Cardinality({k \in 1..idx : StartsLikeHeader(lines[k])})

\* C11 amended: the same for every line that does not start with 4 spaces (a line
\* that does is code-block content, whatever its trimmed form): the paragraph is
\* flushed and the list closed before exactly one <h2> is written, "# T" and
\* "## T" both give "<h2>T</h2>\n", and "#T" gives a paragraph.
C11_HeaderLines ==
    /\ (pc = "loop" /\ idx > 0 /\ StartsLikeHeader(lines[idx])
            /\ ~HasPrefix(lines[idx], Indent)) =>
          /\ Len(paragraph) = 0
          /\ ~inList
          /\ HasSuffix(Ch(sb), HeaderHtml(lines[idx]))
          /\ Count(sb, UlOpen) = Count(sb, UlClose)
          /\ Count(sb, POpen) =
                Len(ParagraphsOf(SubSeq(lines, 1, idx), <<>>))
    /\ Count(sb, H2Open) =
          Cardinality({k \in 1..idx : StartsLikeHeader(lines[k])
                                        /\ ~HasPrefix(lines[k], Indent)})
    /\ pc = "done" =>
          /\ content \in {ExHeaderOne, ExHeaderTwo} => Ch(result) = ExHeaderHtml
          /\ content = ExHeaderNoSpace =>
                Ch(result) = POpen \o ExHeaderNoSpace \o PClose \o NL

\* C11 witness: a header line arrived with a list open and text buffered, and
\* both were ended before the <h2>
C11_Witness ==
    /\ pc = "loop"
    /\ idx = 3
    /\ Kind(lines[1]) = "list"
    /\ Kind(lines[2]) = "plain"
    /\ Kind(lines[3]) = "header"
    /\ Count(sb, H2Open) = 1
    /\ Count(sb, UlClose) = 1
    /\ Count(sb, PClose) = 1

\* C11 witness: both header forms have been rendered
C11_BothForms == pc = "done" /\ content = ExHeaderTwo /\ Ch(result) = ExHeaderHtml

\* number of '**' delimiters left in str, taken left to right without overlap
StarsLeft(str) == Len(DelimiterPositions(Ch(str), Stars, 1))

\* number of backquotes left in str
TicksLeft(str) == Count(str, Tick)

\* two occurrences of '**' in str that do not overlap
TwoStarPairs(str) ==
    \E i \in Occurrences(str, Stars) : \E j \in Occurrences(str, Stars) : j >= i + 2

\* C12: processInlineFormatting terminates on every input: each iteration of the
\* bold loop strictly decreases the number of '**' delimiters left (counted
\* without overlap, and counted as occurrences), each iteration of the code loop
\* strictly decreases the number of backquotes, the inserted tags hold neither
\* '*' nor a backquote, and when it stops the string holds at most one backquote
\* and no two non-overlapping '**'.
C12_Terminates ==
    /\ [][BoldStep => (/\ StarsLeft(s') < StarsLeft(s)
                       /\ Count(s', Stars) < Count(s, Stars)
                       /\ TicksLeft(s') = TicksLeft(s))]_vars
    /\ [][CodeStep => (/\ TicksLeft(s') < TicksLeft(s)
                       /\ StarsLeft(s') = StarsLeft(s))]_vars
    /\ [](\A tg \in {StrongOpen, StrongClose, CodeOpen, CodeClose} :
              \A i \in 1..Len(tg) : tg[i] \notin {"*", Backquote})
    /\ [](pc = "code" => ~TwoStarPairs(s))
    /\ [](pc = "done" => (/\ TicksLeft(result) <= 1
                          /\ ~TwoStarPairs(result)))
    /\ <>(pc = "done")

\* C12 witness: both loops have iterated and stopped with one backquote left over
C12_Witness ==
    /\ pc = "done"
    /\ Count(result, StrongOpen) >= 1
    /\ Count(result, CodeOpen) >= 1
    /\ TicksLeft(result) = 1

====
